---- MODULE Spec2Model ----
(***************************************************************************)
(* Tounfite Souk: the account / listing / messaging data model of          *)
(* local_marketplace_flask_app.py and the request handlers that change it. *)
(*                                                                         *)
(* Text that the code inspects character by character (emails, search      *)
(* terms, item titles) is a sequence of one-character strings.  Values the *)
(* code only stores or compares as a whole (passwords, roles, profile      *)
(* fields, message bodies) are plain strings.                              *)
(***************************************************************************)
EXTENDS Integers, Sequences, FiniteSets, TLC

VARIABLES users, items, msgs, uploads, session, pending, outbox, now, resp

vars == <<users, items, msgs, uploads, session, pending, outbox, now, resp>>

(***************************************************************************)
(* Bounds of the model.                                                    *)
(***************************************************************************)
MaxItems == 1
MaxMsgs == 1
MaxDays == 2
MaxSecs == 1
MaxListed == 2
MaxThread == 2
MaxSent == 2
MaxUploads == 2

(***************************************************************************)
(* Program constants.                                                      *)
(***************************************************************************)
MAX_AGE == 60 * 60 * 24

SECRET_KEY == "change_this_secret_in_prod"

VERIFY_SALT == "email-verify"

ALLOWED_EXTENSIONS == {<<"p", "n", "g">>, <<"j", "p", "g">>, <<"j", "p", "e", "g">>, <<"g", "i", "f">>}

(***************************************************************************)
(* Absent values: a form field that was not submitted (request.form.get    *)
(* returns None), a NULL column.                                           *)
(***************************************************************************)
None == "<None>"

Null == <<"NULL">>

Clients == {1, 2}

Anonymous == 0

(***************************************************************************)
(* str.strip() and str.lower() on character sequences.                     *)
(***************************************************************************)
IsSpace(ch) == ch \in {" ", "\t", "\n"}

RECURSIVE LStrip(_)
LStrip(str) ==
  IF str # <<>> /\ IsSpace(Head(str)) THEN LStrip(Tail(str)) ELSE str

RECURSIVE RStrip(_)
RStrip(str) ==
  IF str # <<>> /\ IsSpace(str[Len(str)])
  THEN RStrip(SubSeq(str, 1, Len(str) - 1))
  ELSE str

Strip(str) == RStrip(LStrip(str))

UpperLetters ==
  <<"A", "B", "C", "D", "E", "F", "G", "H", "I", "J", "K", "L", "M",
    "N", "O", "P", "Q", "R", "S", "T", "U", "V", "W", "X", "Y", "Z">>

LowerLetters ==
  <<"a", "b", "c", "d", "e", "f", "g", "h", "i", "j", "k", "l", "m",
    "n", "o", "p", "q", "r", "s", "t", "u", "v", "w", "x", "y", "z">>

LowerOf ==
  [ch \in {UpperLetters[i] : i \in 1..Len(UpperLetters)} |->
     LowerLetters[CHOOSE i \in 1..Len(UpperLetters) : UpperLetters[i] = ch]]

LowerChar(ch) == IF ch \in DOMAIN LowerOf THEN LowerOf[ch] ELSE ch

Lower(str) == [i \in 1..Len(str) |-> LowerChar(str[i])]

NormalizeEmail(raw) == Lower(Strip(raw))

(***************************************************************************)
(* werkzeug.security: a salted one-way hash.  The digest is an abstract    *)
(* injective function of salt and password; checking recomputes it with    *)
(* the salt stored in the hash.                                            *)
(***************************************************************************)
Digest(salt, password) == <<"pbkdf2", salt, password>>

generate_password_hash(password, salt) ==
  [salt |-> salt, digest |-> Digest(salt, password)]

check_password_hash(pwhash, password) ==
  pwhash.digest = Digest(pwhash.salt, password)

(***************************************************************************)
(* itsdangerous.URLSafeTimedSerializer: a token carries its payload, its   *)
(* issue time and a keyed signature over both, derived from the secret and *)
(* the salt.                                                               *)
(***************************************************************************)
Signature(secret, salt, payload, ts) == <<"hmac", secret, salt, payload, ts>>

Dumps(payload, salt, t) ==
  [payload |-> payload, ts |-> t, sig |-> Signature(SECRET_KEY, salt, payload, t)]

(* Loads as it would behave were max_age not passed (line 510).            *)
LoadsNoMaxAge(token, salt, max_age, t) ==
  IF token.sig # Signature(SECRET_KEY, salt, token.payload, token.ts)
  THEN [ok |-> FALSE, error |-> "Invalid", email |-> <<>>]
  ELSE [ok |-> TRUE, error |-> "", email |-> token.payload]

Loads(token, salt, max_age, t) ==
  IF token.sig # Signature(SECRET_KEY, salt, token.payload, token.ts)
  THEN [ok |-> FALSE, error |-> "Invalid", email |-> <<>>]
  ELSE IF t - token.ts > max_age
       THEN [ok |-> FALSE, error |-> "Expired", email |-> <<>>]
       ELSE [ok |-> TRUE, error |-> "", email |-> token.payload]

(***************************************************************************)
(* Queries on the User table.                                              *)
(***************************************************************************)
UserIds == 1..Len(users)

UserByEmail(email) ==
  IF \E i \in UserIds : users[i].email = email
  THEN CHOOSE i \in UserIds : users[i].email = email
  ELSE Anonymous

Idle(c) == pending[c] = <<>>

Response(op, c, status) == [op |-> op, client |-> c, status |-> status]

(***************************************************************************)
(* Init: the database after initdb, no session logged in, nothing mailed.  *)
(***************************************************************************)
Init ==
  /\ users = <<>>
  /\ items = <<>>
  /\ msgs = <<>>
  /\ uploads = {}
  /\ session = [c \in Clients |-> Anonymous]
  /\ pending = [c \in Clients |-> <<>>]
  /\ outbox = {}
  /\ now = 0
  /\ resp = Response("start", 0, "")

(***************************************************************************)
(* POST /register.  The handler reads the form, validates, looks the email *)
(* up (line 494) and, in a second database step, inserts and commits (line *)
(* 500).  Requests of different clients interleave between the two steps;  *)
(* the unique constraint on User.email (line 112) is enforced by the       *)
(* commit.                                                                 *)
(***************************************************************************)
RegisterRole(roleIn) == IF roleIn = None \/ roleIn = "" THEN "buyer" ELSE roleIn

RegisterBegin(c, rawEmail, password, roleIn, form) ==
  LET email == NormalizeEmail(rawEmail) IN
  /\ Idle(c)
  /\ IF email = <<>> \/ password = None \/ password = ""
     THEN /\ resp' = Response("register", c, "InvalidInput")
          /\ UNCHANGED pending
     ELSE IF UserByEmail(email) # Anonymous
          THEN /\ resp' = Response("register", c, "EmailTaken")
               /\ UNCHANGED pending
          ELSE /\ pending' = [pending EXCEPT ![c] =
                                <<[email |-> email, password |-> password,
                                   role |-> RegisterRole(roleIn), form |-> form]>>]
               /\ resp' = Response("register", c, "checking")
  /\ UNCHANGED <<users, items, msgs, uploads, session, outbox, now>>

NewUser(req, salt) ==
  [email |-> req.email,
   password_hash |-> generate_password_hash(req.password, salt),
   role |-> req.role,
   name |-> req.form.name, phone |-> req.form.phone, city |-> req.form.city,
   verified |-> FALSE]

UniqueEmailOk(email) == \A i \in UserIds : users[i].email # email

(* send_verification_email signing under another salt than verify_email   *)
(* checks.                                                                 *)
SendVerificationOtherSalt(email) == outbox \cup {Dumps(email, "verify", now)}

send_verification_email(email) == outbox \cup {Dumps(email, VERIFY_SALT, now)}

RegisterCommit(c, salt) ==
  /\ ~Idle(c)
  /\ pending' = [pending EXCEPT ![c] = <<>>]
  /\ IF UniqueEmailOk(pending[c][1].email)
     THEN /\ users' = Append(users, NewUser(pending[c][1], salt))
          /\ outbox' = send_verification_email(pending[c][1].email)
          /\ session' = [session EXCEPT ![c] = Len(users) + 1]
          /\ resp' = Response("register", c, "Registered")
     ELSE /\ resp' = Response("register", c, "IntegrityError")
          /\ UNCHANGED <<users, outbox, session>>
  /\ UNCHANGED <<items, msgs, uploads, now>>

(***************************************************************************)
(* GET /verify/<token>.  Anyone may present any token: one that was mailed *)
(* or printed, an altered copy of one, or one made without the secret.     *)
(***************************************************************************)
VerifyResponse(c, status, error) ==
  [op |-> "verify_email", client |-> c, status |-> status, error |-> error, at |-> now]

verify_email(c, token) ==
  LET res == Loads(token, VERIFY_SALT, MAX_AGE, now)
      uid == UserByEmail(res.email)
  IN
  /\ Idle(c)
  /\ IF ~res.ok
     THEN /\ resp' = VerifyResponse(c, "InvalidOrExpired", res.error)
          /\ UNCHANGED users
     ELSE IF uid = Anonymous
          THEN /\ resp' = VerifyResponse(c, "UserNotFound", "")
               /\ UNCHANGED users
          ELSE /\ users' = [users EXCEPT ![uid].verified = TRUE]
               /\ resp' = VerifyResponse(c, "Verified", "")
  /\ UNCHANGED <<items, msgs, uploads, session, pending, outbox, now>>

(***************************************************************************)
(* POST /login and GET /logout.                                            *)
(***************************************************************************)
(* login looking the email up as typed, without lower().                   *)
LoginAsTyped(c, rawEmail, password) ==
  LET email == Strip(rawEmail)
      uid == UserByEmail(email)
  IN
  /\ Idle(c)
  /\ IF uid = Anonymous \/ ~check_password_hash(users[uid].password_hash, password)
     THEN /\ resp' = Response("login", c, "InvalidCredentials")
          /\ UNCHANGED session
     ELSE /\ session' = [session EXCEPT ![c] = uid]
          /\ resp' = Response("login", c, "LoggedIn")
  /\ UNCHANGED <<users, items, msgs, uploads, pending, outbox, now>>

login(c, rawEmail, password) ==
  LET email == NormalizeEmail(rawEmail)
      uid == UserByEmail(email)
  IN
  /\ Idle(c)
  /\ IF uid = Anonymous \/ ~check_password_hash(users[uid].password_hash, password)
     THEN /\ resp' = Response("login", c, "InvalidCredentials")
          /\ UNCHANGED session
     ELSE /\ session' = [session EXCEPT ![c] = uid]
          /\ resp' = Response("login", c, "LoggedIn")
  /\ UNCHANGED <<users, items, msgs, uploads, pending, outbox, now>>

logout(c) ==
  /\ Idle(c)
  /\ IF session[c] = Anonymous
     THEN /\ resp' = Response("logout", c, "LoginRequired")
          /\ UNCHANGED session
     ELSE /\ session' = [session EXCEPT ![c] = Anonymous]
          /\ resp' = Response("logout", c, "LoggedOut")
  /\ UNCHANGED <<users, items, msgs, uploads, pending, outbox, now>>

(***************************************************************************)
(* POST /profile.                                                          *)
(***************************************************************************)
profile(c, form) ==
  /\ Idle(c)
  /\ IF session[c] = Anonymous
     THEN /\ resp' = Response("profile", c, "LoginRequired")
          /\ UNCHANGED users
     ELSE /\ users' = [users EXCEPT ![session[c]].name = form.name,
                                    ![session[c]].phone = form.phone,
                                    ![session[c]].city = form.city]
          /\ resp' = Response("profile", c, "Updated")
  /\ UNCHANGED <<items, msgs, uploads, session, pending, outbox, now>>

(***************************************************************************)
(* Passage of time, in seconds.                                            *)
(***************************************************************************)
Tick(d) ==
  /\ now' = now + d
  /\ UNCHANGED <<users, items, msgs, uploads, session, pending, outbox, resp>>

(***************************************************************************)
(* POST /add_item.  The upload is saved (line 573) before the Item is      *)
(* built (line 574) and committed (line 576).                              *)
(***************************************************************************)
RSplitExt(filename) ==
  LET dots == {i \in 1..Len(filename) : filename[i] = "."}
      last == CHOOSE i \in dots : \A j \in dots : j <= i
  IN SubSeq(filename, last + 1, Len(filename))

allowed_file(filename) ==
  /\ \E i \in 1..Len(filename) : filename[i] = "."
  /\ Lower(RSplitExt(filename)) \in ALLOWED_EXTENSIONS

(***************************************************************************)
(* werkzeug's secure_filename on ASCII names: every '/' becomes a blank,   *)
(* the name is split at blanks and joined with '_', every character that   *)
(* is not a letter, a digit, '_', '.' or '-' is dropped, and leading and    *)
(* trailing '.' and '_' are stripped.                                       *)
(***************************************************************************)
Digits == <<"0", "1", "2", "3", "4", "5", "6", "7", "8", "9">>

SafeChar(ch) ==
  \/ \E i \in 1..Len(UpperLetters) : ch \in {UpperLetters[i], LowerLetters[i]}
  \/ \E i \in 1..Len(Digits) : ch = Digits[i]
  \/ ch \in {"_", ".", "-"}

SepToSpace(filename) ==
  [i \in 1..Len(filename) |-> IF filename[i] = "/" THEN " " ELSE filename[i]]

RECURSIVE JoinWords(_)
JoinWords(str) ==
  IF str = <<>> THEN <<>>
  ELSE IF IsSpace(Head(str))
       THEN <<"_">> \o JoinWords(LStrip(str))
       ELSE <<Head(str)>> \o JoinWords(Tail(str))

RECURSIVE KeepSafe(_)
KeepSafe(str) ==
  IF str = <<>> THEN <<>>
  ELSE (IF SafeChar(Head(str)) THEN <<Head(str)>> ELSE <<>>) \o KeepSafe(Tail(str))

RECURSIVE StripDots(_)
StripDots(str) ==
  IF str # <<>> /\ Head(str) \in {".", "_"} THEN StripDots(Tail(str))
  ELSE IF str # <<>> /\ str[Len(str)] \in {".", "_"}
       THEN StripDots(SubSeq(str, 1, Len(str) - 1))
       ELSE str

secure_filename(filename) ==
  StripDots(KeepSafe(JoinWords(Strip(SepToSpace(filename)))))

(***************************************************************************)
(* The stored name f"{current_user.id}_{timestamp}_{fname}".  The          *)
(* timestamp is the clock at one-second resolution, written with a fixed   *)
(* number of digits.                                                       *)
(***************************************************************************)
RECURSIVE NatDigits(_)
NatDigits(n) ==
  IF n < 10 THEN <<Digits[n + 1]>>
  ELSE NatDigits(n \div 10) \o <<Digits[(n % 10) + 1]>>

TimestampWidth == 14

RECURSIVE ZeroPad(_, _)
ZeroPad(str, width) ==
  IF Len(str) >= width THEN str ELSE ZeroPad(<<"0">> \o str, width)

Timestamp(t) == ZeroPad(NatDigits(t), TimestampWidth)

StoredName(uid, timestamp, fname) ==
  NatDigits(uid) \o <<"_">> \o Timestamp(timestamp) \o <<"_">> \o secure_filename(fname)

IsDigit(ch) == ch \in {"0", "1", "2", "3", "4", "5", "6", "7", "8", "9"}

DigitValue(ch) == CHOOSE d \in 0..9 : ToString(d) = ch

RECURSIVE DigitsValue(_)
DigitsValue(str) ==
  IF str = <<>> THEN 0
  ELSE 10 * DigitsValue(SubSeq(str, 1, Len(str) - 1)) + DigitValue(str[Len(str)])

RECURSIVE Pow10(_)
Pow10(n) == IF n = 0 THEN 1 ELSE 10 * Pow10(n - 1)

RECURSIVE DropTrailingZeros(_)
DropTrailingZeros(str) ==
  IF str # <<>> /\ str[Len(str)] = "0"
  THEN DropTrailingZeros(SubSeq(str, 1, Len(str) - 1))
  ELSE str

(***************************************************************************)
(* float(price) on a string: surrounding whitespace is ignored, then an    *)
(* optional sign, then digits with an optional '.' and fraction ("12",     *)
(* "-5", "1.50", "5.", ".5").  The value is kept exactly, as num / den     *)
(* with den a power of ten.  Anything else among the inputs used here      *)
(* (letters, a lone sign or dot, blanks only) raises ValueError; exponent, *)
(* inf and nan spellings are not among the inputs.                         *)
(***************************************************************************)
ParseFloat(price) ==
  LET txt == Strip(price)
      neg == txt # <<>> /\ Head(txt) = "-"
      body == IF txt # <<>> /\ Head(txt) \in {"-", "+"} THEN Tail(txt) ELSE txt
      dots == {i \in 1..Len(body) : body[i] = "."}
      dot == IF dots = {} THEN Len(body) + 1 ELSE CHOOSE i \in dots : \A j \in dots : i <= j
      whole == SubSeq(body, 1, dot - 1)
      frac == SubSeq(body, dot + 1, Len(body))
      kept == DropTrailingZeros(frac)
      mag == DigitsValue(whole \o kept)
  IN IF /\ whole \o frac # <<>>
        /\ \A i \in 1..Len(whole) : IsDigit(whole[i])
        /\ \A i \in 1..Len(frac) : IsDigit(frac[i])
     THEN [ok |-> TRUE,
           value |-> [num |-> IF neg THEN 0 - mag ELSE mag, den |-> Pow10(Len(kept))]]
     ELSE [ok |-> FALSE, value |-> [num |-> 0, den |-> 1]]

(***************************************************************************)
(* price = request.form.get('price') or 0, then float(price): an absent or *)
(* empty field gives float(0).                                             *)
(***************************************************************************)
CoercePrice(price) ==
  IF price = Null \/ price = <<>>
  THEN [ok |-> TRUE, value |-> [num |-> 0, den |-> 1]]
  ELSE ParseFloat(price)

NewItem(uid, form, filename) ==
  [title |-> form.title, price |-> CoercePrice(form.price).value,
   description |-> form.description, city |-> form.city,
   image_filename |-> filename, created_at |-> now, seller_id |-> uid]

add_item(c, form) ==
  LET uid == session[c]
      accepted == form.image # Null /\ form.image # <<>> /\ allowed_file(form.image)
      filename == IF accepted THEN <<StoredName(uid, now, form.image)>> ELSE <<>>
  IN
  /\ Idle(c)
  /\ IF uid = Anonymous
     THEN /\ resp' = Response("add_item", c, "LoginRequired")
          /\ UNCHANGED <<items, uploads>>
     ELSE IF users[uid].role # "seller"
          THEN /\ resp' = Response("add_item", c, "Forbidden")
               /\ UNCHANGED <<items, uploads>>
          ELSE /\ uploads' = IF accepted THEN uploads \cup {filename[1]} ELSE uploads
               /\ IF ~CoercePrice(form.price).ok
                  THEN /\ resp' = Response("add_item", c, "ValueError")
                       /\ UNCHANGED items
                  ELSE IF form.title = Null
                       THEN /\ resp' = Response("add_item", c, "IntegrityError")
                            /\ UNCHANGED items
                       ELSE /\ items' = Append(items, NewItem(uid, form, filename))
                            /\ resp' = Response("add_item", c, "ItemAdded")
  /\ UNCHANGED <<users, msgs, session, pending, outbox, now>>

(***************************************************************************)
(* GET /items.  Column.contains(q) is rendered as                          *)
(*   column LIKE '%' || q || '%'                                           *)
(* and evaluated by SQLite (line 60): '%' matches any run of characters,   *)
(* '_' any one character, letters match without regard to ASCII case, and  *)
(* a NULL column matches nothing.                                          *)
(***************************************************************************)
RECURSIVE LikeMatch(_, _)
LikeMatch(pattern, str) ==
  IF pattern = <<>> THEN str = <<>>
  ELSE IF Head(pattern) = "%"
       THEN \/ LikeMatch(Tail(pattern), str)
            \/ str # <<>> /\ LikeMatch(pattern, Tail(str))
       ELSE /\ str # <<>>
            /\ \/ Head(pattern) = "_"
               \/ LowerChar(Head(pattern)) = LowerChar(Head(str))
            /\ LikeMatch(Tail(pattern), Tail(str))

Contains(column, q) ==
  column # Null /\ LikeMatch(<<"%">> \o q \o <<"%">>, column)

ItemIds == 1..Len(items)

(* FilterItems with the two filters joined by OR instead of AND.           *)
FilterItemsEither(q, city) ==
  {i \in ItemIds :
     \/ q = <<>> \/ Contains(items[i].title, q) \/ Contains(items[i].description, q)
     \/ city = <<>> \/ Contains(items[i].city, city)}

FilterItems(q, city) ==
  {i \in ItemIds :
     /\ q = <<>> \/ Contains(items[i].title, q) \/ Contains(items[i].description, q)
     /\ city = <<>> \/ Contains(items[i].city, city)}

Orderings(S) ==
  {f \in [1..Cardinality(S) -> S] : \A i, j \in 1..Cardinality(S) : i # j => f[i] # f[j]}

ItemsNewestFirst(S) ==
  {f \in Orderings(S) :
     \A i, j \in 1..Cardinality(S) : i < j => items[f[i]].created_at >= items[f[j]].created_at}

ItemsResponse(c, q, city, list) ==
  [op |-> "items", client |-> c, status |-> "ok", q |-> q, city |-> city, list |-> list]

GetItems(c, qRaw, cityRaw) ==
  /\ Idle(c)
  /\ \E list \in ItemsNewestFirst(FilterItems(Strip(qRaw), Strip(cityRaw))) :
       resp' = ItemsResponse(c, qRaw, cityRaw, list)
  /\ UNCHANGED <<users, items, msgs, uploads, session, pending, outbox, now>>

(***************************************************************************)
(* POST /contact/<seller_id>.                                              *)
(***************************************************************************)
NewMessage(sender, receiver, content) ==
  [sender_id |-> sender, receiver_id |-> receiver, content |-> content,
   created_at |-> now]

(* contact_seller without the check for an empty body (lines 611-613).     *)
ContactSellerNoEmptyCheck(c, seller_id, content) ==
  /\ Idle(c)
  /\ IF session[c] = Anonymous
     THEN /\ resp' = Response("contact_seller", c, "LoginRequired")
          /\ UNCHANGED msgs
     ELSE IF seller_id \notin UserIds
          THEN /\ resp' = Response("contact_seller", c, "NotFound")
               /\ UNCHANGED msgs
          ELSE /\ msgs' = Append(msgs, NewMessage(session[c], seller_id, content))
               /\ resp' = Response("contact_seller", c, "MessageSent")
  /\ UNCHANGED <<users, items, uploads, session, pending, outbox, now>>

contact_seller(c, seller_id, content) ==
  /\ Idle(c)
  /\ IF session[c] = Anonymous
     THEN /\ resp' = Response("contact_seller", c, "LoginRequired")
          /\ UNCHANGED msgs
     ELSE IF seller_id \notin UserIds
          THEN /\ resp' = Response("contact_seller", c, "NotFound")
               /\ UNCHANGED msgs
          ELSE IF content = None \/ content = ""
               THEN /\ resp' = Response("contact_seller", c, "Empty")
                    /\ UNCHANGED msgs
               ELSE /\ msgs' = Append(msgs, NewMessage(session[c], seller_id, content))
                    /\ resp' = Response("contact_seller", c, "MessageSent")
  /\ UNCHANGED <<users, items, uploads, session, pending, outbox, now>>

(***************************************************************************)
(* GET and POST /messages.  The partner list and the thread are computed   *)
(* first (lines 626-640); a POST with an existing counterpart and a        *)
(* non-empty body then stores the message and redirects, and every other   *)
(* request renders what was computed.                                      *)
(***************************************************************************)
MsgIds == 1..Len(msgs)

Partners(uid) ==
  {IF msgs[k].sender_id # uid THEN msgs[k].sender_id ELSE msgs[k].receiver_id :
     k \in {m \in MsgIds : msgs[m].sender_id = uid \/ msgs[m].receiver_id = uid}}

ConvUsers(uid) == {u \in UserIds : u \in Partners(uid)}

(* ThreadFilter keeping only what the user sent.                           *)
ThreadFilterSentOnly(uid, other) ==
  {m \in MsgIds : msgs[m].sender_id = uid /\ msgs[m].receiver_id = other}

ThreadFilter(uid, other) ==
  {m \in MsgIds :
     \/ msgs[m].sender_id = uid /\ msgs[m].receiver_id = other
     \/ msgs[m].sender_id = other /\ msgs[m].receiver_id = uid}

MessagesOldestFirst(S) ==
  {f \in Orderings(S) :
     \A i, j \in 1..Cardinality(S) : i < j => msgs[f[i]].created_at <= msgs[f[j]].created_at}

Thread(uid, other) == MessagesOldestFirst(ThreadFilter(uid, other))

MessagesResponse(c, status, uid, other, partners, thread) ==
  [op |-> "messages", client |-> c, status |-> status, user |-> uid,
   other |-> other, partners |-> partners, thread |-> thread]

messages(c, method, with_id, content) ==
  LET uid == session[c]
      other == IF with_id # <<>> /\ with_id[1] \in UserIds THEN with_id[1] ELSE Anonymous
  IN
  /\ Idle(c)
  /\ IF uid = Anonymous
     THEN /\ resp' = Response("messages", c, "LoginRequired")
          /\ UNCHANGED msgs
     ELSE IF method = "POST" /\ other # Anonymous /\ content # None /\ content # ""
          THEN /\ msgs' = Append(msgs, NewMessage(uid, other, content))
               /\ resp' = Response("messages", c, "MessageSent")
          ELSE /\ \E thread \in (IF other = Anonymous THEN {<<>>} ELSE Thread(uid, other)) :
                    resp' = MessagesResponse(c, "ok", uid, other, ConvUsers(uid), thread)
               /\ UNCHANGED msgs
  /\ UNCHANGED <<users, items, uploads, session, pending, outbox, now>>

(***************************************************************************)
(* Request inputs.                                                         *)
(***************************************************************************)
RawEmails == {<<"A">>, <<"a", " ">>, <<" ", "b">>, <<>>, <<" ">>}

Emails == {NormalizeEmail(e) : e \in RawEmails} \ {<<>>}

NoProfile == [name |-> None, phone |-> None, city |-> None]

SomeProfile == [name |-> "Ali", phone |-> "0600", city |-> "Tounfite"]

RoleInputs == {None, "", "seller", "buyer", "admin"}

AlteredTokens ==
  UNION {{[t EXCEPT !.payload = e] : e \in Emails}
           \cup {[t EXCEPT !.ts = now]}
           \cup {[t EXCEPT !.sig = Signature("guess", VERIFY_SALT, t.payload, t.ts)]}
         : t \in outbox}

ForgedTokens ==
  {[payload |-> e, ts |-> now, sig |-> Signature(k[1], k[2], e, now)] :
     e \in Emails, k \in {<<"guess", VERIFY_SALT>>, <<SECRET_KEY, "other-purpose">>}}

TokenInputs == outbox \cup AlteredTokens \cup ForgedTokens

PlainItem ==
  [title |-> <<"a">>, price |-> <<"1", "2">>, description |-> Null, city |-> Null,
   image |-> Null]

BadPriceItem == [PlainItem EXCEPT !.price = <<"a", "b", "c">>]

ReceiverInputs == 1..(Len(users) + 1)

ContentInputs == {"hi", "", None}

(***************************************************************************)
(* Spec: one browser session using every handler, one request at a time.   *)
(***************************************************************************)
Next ==
  \/ \E in \in {<<<<"A">>, "p", "seller">>, <<<<" ", "b">>, "p", None>>, <<<<"a", " ">>, None, None>>} :
       RegisterBegin(1, in[1], in[2], in[3], NoProfile)
  \/ RegisterCommit(1, "s1")
  \/ \E t \in TokenInputs : verify_email(1, t)
  \/ \E e \in {<<"a">>, <<"B">>}, p \in {"p", "q"} : login(1, e, p)
  \/ logout(1)
  \/ profile(1, SomeProfile)
  \/ now < MaxDays * MAX_AGE /\ Tick(MAX_AGE)
  \/ Len(items) < MaxItems /\ \E f \in {PlainItem, BadPriceItem} : add_item(1, f)
  \/ GetItems(1, <<"a">>, <<>>)
  \/ \E to \in ReceiverInputs, txt \in ContentInputs :
       Len(msgs) < MaxMsgs /\ contact_seller(1, to, txt)
  \/ \E m \in {"GET", "POST"}, to \in ReceiverInputs, txt \in ContentInputs :
       Len(msgs) < MaxMsgs /\ messages(1, m, <<to>>, txt)

Spec == Init /\ [][Next]_vars

(***************************************************************************)
(* SpecRegister: two browsers registering concurrently, with every kind of *)
(* submitted role.                                                         *)
(***************************************************************************)
NextRegister ==
  \/ \E c \in Clients, e \in RawEmails, p \in {"p", "", None}, r \in RoleInputs :
       RegisterBegin(c, e, p, r, NoProfile)
  \/ \E c \in Clients : RegisterCommit(c, "s1")

SpecRegister == Init /\ [][NextRegister]_vars

(***************************************************************************)
(* SpecLogin: two browsers registering, logging in and out, with emails    *)
(* that differ in case and surrounding blanks and with several passwords.  *)
(***************************************************************************)
LoginEmails == {<<"a">>, <<"A", " ">>, <<" ", "B">>, <<"a", " ", "b">>}

LoginPasswords == {"p", "q"}

NextLogin ==
  \/ \E c \in Clients, e \in {<<"A">>, <<" ", "b">>}, p \in {"p", "q"} :
       RegisterBegin(c, e, p, None, NoProfile)
  \/ \E c \in Clients, salt \in {"s1", "s2"} : RegisterCommit(c, salt)
  \/ \E c \in Clients, e \in LoginEmails, p \in LoginPasswords : login(c, e, p)
  \/ \E c \in Clients : logout(c)

SpecLogin == Init /\ [][NextLogin]_vars

(***************************************************************************)
(* What "the same email up to case and surrounding blanks" means, stated   *)
(* without the code's strip() and lower(): raw is blanks, then a core that *)
(* neither starts nor ends with a blank, then blanks, and the core equals  *)
(* the stored email letter by letter once upper case is folded.            *)
(***************************************************************************)
Stripped(raw, core) ==
  \E i \in 0..Len(raw) : \E j \in i..Len(raw) :
    /\ \A k \in 1..i : IsSpace(raw[k])
    /\ \A k \in (j + 1)..Len(raw) : IsSpace(raw[k])
    /\ j > i => ~IsSpace(raw[i + 1]) /\ ~IsSpace(raw[j])
    /\ Len(core) = j - i
    /\ \A k \in 1..(j - i) : core[k] = raw[i + k]

Core(raw) ==
  CHOOSE core \in {SubSeq(raw, i, j) : i \in 1..(Len(raw) + 1), j \in 0..Len(raw)} :
    Stripped(raw, core)

SameEmail(raw, stored) ==
  /\ Len(stored) = Len(Core(raw))
  /\ \A k \in 1..Len(stored) : LowerChar(Core(raw)[k]) = stored[k]

(***************************************************************************)
(* C1.  No two Users have the same normalized email, and a registration    *)
(* that does not create a User because its email is already registered     *)
(* ends with EmailTaken, whatever the interleaving of the requests.        *)
(***************************************************************************)
C1_UniqueEmails ==
  \A i, j \in UserIds : users[i].email = users[j].email => i = j

C1_DuplicateFailsEmailTaken ==
  /\ C1_UniqueEmails
  /\ resp.op = "register" /\ resp.status \notin {"InvalidInput", "Registered", "checking"}
       => resp.status = "EmailTaken"

(***************************************************************************)
(* C1, the part that holds: a registration step never changes or removes   *)
(* an existing User, and adds at most one.                                 *)
(***************************************************************************)
C1_ExistingUsersKept ==
  [][/\ Len(users') \in {Len(users), Len(users) + 1}
     /\ \A i \in UserIds : users'[i] = users[i]]_vars

(***************************************************************************)
(* C2.  login(e, p) logs the session in as u exactly when u's stored email *)
(* is e up to case and surrounding blanks and p matches u's password hash; *)
(* otherwise the response is InvalidCredentials and no session changes.    *)
(***************************************************************************)
C2_Matches(u, e, p) ==
  SameEmail(e, users[u].email) /\ check_password_hash(users[u].password_hash, p)

C6_RoleSellerOrBuyer ==
  \A i \in UserIds : users[i].role \in {"seller", "buyer"}

(***************************************************************************)
(* C3.  A User is created unverified; a verified flag changes only from    *)
(* false to true, and only in a verify_email step that redeems a token the *)
(* service issued for that user's email at most 24 hours earlier.          *)
(***************************************************************************)
C3_VerifiedOnlyByValidToken ==
  [][/\ Len(users') >= Len(users)
     /\ \A i \in 1..Len(users') : i > Len(users) => ~users'[i].verified
     /\ \A i \in UserIds :
          users'[i].verified # users[i].verified =>
            /\ ~users[i].verified /\ users'[i].verified
            /\ resp' = VerifyResponse(1, "Verified", "")
            /\ \E t \in outbox :
                 /\ t.payload = users[i].email
                 /\ now - t.ts <= MAX_AGE
                 /\ verify_email(1, t)]_vars

C3_Witness ==
  /\ Len(users) = 2
  /\ users[1].verified /\ ~users[2].verified
  /\ resp = Response("profile", 1, "Updated")
  /\ session[1] = 1
  /\ Len(msgs) = 1 /\ Len(items) = 1
  /\ now > MAX_AGE

(***************************************************************************)
(* C4.  Redeeming a token in verify_email: a token the service issued for  *)
(* an email verifies the User with that email when it is at most 24 hours  *)
(* old, fails as Expired when it is older, and any token the service did   *)
(* not issue fails as Invalid; a failed redemption changes no User.        *)
(***************************************************************************)
C4_RedeemWithin24h ==
  [][resp'.op = "verify_email" =>
     \A t \in TokenInputs :
       verify_email(1, t) =>
         IF t \in outbox /\ now - t.ts <= MAX_AGE
         THEN /\ resp'.status = "Verified"
              /\ \E u \in UserIds :
                   /\ users[u].email = t.payload
                   /\ users' = [users EXCEPT ![u].verified = TRUE]
         ELSE /\ users' = users
              /\ resp'.status = "InvalidOrExpired"
              /\ resp'.error = IF t \in outbox THEN "Expired" ELSE "Invalid"]_vars

C4_Witness ==
  /\ resp = VerifyResponse(1, "Verified", "")
  /\ now = MAX_AGE
  /\ \E u \in UserIds :
       /\ users[u].verified
       /\ Dumps(users[u].email, VERIFY_SALT, 0) \in outbox
       /\ \A v \in UserIds \ {u} : ~users[v].verified

(***************************************************************************)
(* C5.  add_item by a logged-in user who is not a seller is Forbidden and  *)
(* creates no Item; add_item by a seller creates an Item owned by the      *)
(* caller.  Every Item's owner is an existing User with role 'seller'.     *)
(***************************************************************************)
C5_ItemsOwnedBySellers ==
  \A i \in ItemIds :
    items[i].seller_id \in UserIds /\ users[items[i].seller_id].role = "seller"

C5_SellerAddItemCreates ==
  /\ C5_ItemsOwnedBySellers
  /\ resp.op = "add_item" => resp.status \in {"LoginRequired", "Forbidden", "ItemAdded"}

(***************************************************************************)
(* C5, the part that holds: a non-seller never adds an Item, an added Item *)
(* belongs to the caller, and stored Items never change.                   *)
(***************************************************************************)
C5_OwnershipImmutable ==
  [][/\ Len(items') >= Len(items)
     /\ \A i \in ItemIds : items'[i] = items[i]
     /\ Len(items') > Len(items) =>
          /\ Len(items') = Len(items) + 1
          /\ session[1] # Anonymous
          /\ users[session[1]].role = "seller"
          /\ items'[Len(items')].seller_id = session[1]]_vars

(***************************************************************************)
(* SpecSend: two users sending through both entry points, with empty and   *)
(* missing bodies, unknown receivers and logged-out callers.               *)
(***************************************************************************)
SendEmails == <<<<"a">>, <<"b">>>>

NextSend ==
  \/ Len(users) < Len(SendEmails) /\
       RegisterBegin(1, SendEmails[Len(users) + 1], "p", None, NoProfile)
  \/ RegisterCommit(1, "s1")
  \/ \E k \in 1..Len(SendEmails) : login(1, SendEmails[k], "p")
  \/ logout(1)
  \/ now < MaxSecs /\ Tick(1)
  \/ \E to \in ReceiverInputs, txt \in ContentInputs :
       (Len(msgs) < MaxSent \/ txt \in {"", None}) /\ contact_seller(1, to, txt)
  \/ \E m \in {"GET", "POST"}, to \in ReceiverInputs, txt \in ContentInputs :
       (Len(msgs) < MaxSent \/ m = "GET" \/ txt \in {"", None}) /\
         messages(1, m, <<to>>, txt)

SpecSend == Init /\ [][NextSend]_vars

(***************************************************************************)
(* C10.  In contact_seller and in the POST of messages, a send with empty  *)
(* or missing content, or to an id that is no User, leaves the Message     *)
(* table unchanged; a send that succeeds appends exactly one Message from  *)
(* the logged-in caller.  Stored Messages have non-empty content, existing *)
(* sender and receiver, and are never modified or removed.                 *)
(***************************************************************************)
C10_SendPost(to, txt) ==
  IF session[1] = Anonymous \/ txt \in {"", None} \/ to \notin UserIds
  THEN msgs' = msgs /\ resp'.status # "MessageSent"
  ELSE /\ msgs' = Append(msgs, [sender_id |-> session[1], receiver_id |-> to,
                                content |-> txt, created_at |-> now])
       /\ resp'.status = "MessageSent"

C10_SendsValidated ==
  [][/\ resp'.op \in {"contact_seller", "messages"} =>
          \A to \in ReceiverInputs, txt \in ContentInputs :
            /\ contact_seller(1, to, txt) => C10_SendPost(to, txt)
            /\ messages(1, "POST", <<to>>, txt) => C10_SendPost(to, txt)
     /\ Len(msgs') >= Len(msgs)
     /\ \A m \in MsgIds : msgs'[m] = msgs[m]
     /\ \A m \in 1..Len(msgs') :
          /\ msgs'[m].content \notin {"", None}
          /\ msgs'[m].sender_id \in 1..Len(users')
          /\ msgs'[m].receiver_id \in 1..Len(users')]_vars

C10_Witness ==
  /\ Len(msgs) = MaxSent
  /\ resp = Response("contact_seller", 1, "Empty")
  /\ msgs[1].sender_id # msgs[1].receiver_id
  /\ msgs[2].sender_id = msgs[1].receiver_id

(***************************************************************************)
(* SpecItems: one seller listing items and anyone searching them.          *)
(***************************************************************************)
ListedItems ==
  {[title |-> <<"A", "b">>, price |-> Null, description |-> Null,
    city |-> <<"T", "a">>, image |-> Null],
   [title |-> <<"b">>, price |-> <<"5">>, description |-> <<"x", "a">>,
    city |-> Null, image |-> Null],
   [title |-> <<"c">>, price |-> <<>>, description |-> <<>>,
    city |-> <<"t">>, image |-> Null]}

TextQueries == {<<>>, <<"a">>, <<"A">>, <<" ", "b", " ">>, <<"a", "b">>, <<"_">>, <<"%">>, <<"x", "_">>}

CityQueries == {<<>>, <<"t">>, <<" ">>, <<"a">>}

NextItems ==
  \/ RegisterBegin(1, <<"A">>, "p", "seller", NoProfile)
  \/ RegisterCommit(1, "s1")
  \/ Len(items) < MaxListed /\ \E f \in ListedItems : add_item(1, f)
  \/ now < MaxSecs /\ Tick(1)
  \/ \E q \in TextQueries, city \in CityQueries : GetItems(1, q, city)

SpecItems == Init /\ [][NextItems]_vars

(***************************************************************************)
(* SpecConv: three users, registered one after the other, who log in and   *)
(* write to each other (and to themselves) through both send entry points. *)
(***************************************************************************)
ConvEmails == <<<<"a">>, <<"b">>, <<"c">>>>

NextConv ==
  \/ Len(users) < Len(ConvEmails) /\
       RegisterBegin(1, ConvEmails[Len(users) + 1], "p", None, NoProfile)
  \/ RegisterCommit(1, "s1")
  \/ \E k \in 1..Len(ConvEmails) : login(1, ConvEmails[k], "p")
  \/ now < MaxSecs /\ Tick(1)
  \/ Len(msgs) < MaxThread /\ \E to \in ReceiverInputs : contact_seller(1, to, "hi")
  \/ \E m \in {"GET", "POST"}, to \in ReceiverInputs, txt \in {"hi", ""} :
       (Len(msgs) < MaxThread \/ m = "GET" \/ txt = "") /\ messages(1, m, <<to>>, txt)
  \/ messages(1, "GET", <<>>, None)

SpecConv == Init /\ [][NextConv]_vars

(***************************************************************************)
(* C7 as the specification words it: items(text, city) returns the Items   *)
(* whose title or description contains text as a case-sensitive substring  *)
(* and whose city contains city, newest first.                             *)
(***************************************************************************)
IsSubstring(q, str) ==
  \E i \in 0..(Len(str) - Len(q)) : \A k \in 1..Len(q) : str[i + k] = q[k]

C7_ListIs(list, want) ==
  /\ Len(list) = Cardinality(want)
  /\ {list[k] : k \in 1..Len(list)} = want
  /\ \A k, l \in 1..Len(list) :
       k < l => items[list[k]].created_at >= items[list[l]].created_at

C7_WantedCaseSensitive(q, city) ==
  {i \in ItemIds :
     /\ \/ q = <<>>
        \/ IsSubstring(q, items[i].title)
        \/ items[i].description # Null /\ IsSubstring(q, items[i].description)
     /\ \/ city = <<>>
        \/ items[i].city # Null /\ IsSubstring(city, items[i].city)}

C7_CaseSensitiveSubstring ==
  resp.op = "items" => C7_ListIs(resp.list, C7_WantedCaseSensitive(resp.q, resp.city))

(***************************************************************************)
(* C7 as amended: text and city are taken without surrounding blanks, a    *)
(* blank one counts as absent, and "contains" is SQLite's LIKE '%text%':   *)
(* the characters of text other than '%' occur in the column in order,     *)
(* neighbours in text being neighbours in the column, letters compared     *)
(* without regard to ASCII case and '_' standing for any one character.    *)
(* The result is newest first and the call changes nothing stored.         *)
(***************************************************************************)
LikeContains(q, str) ==
  LET lits == {k \in 1..Len(q) : q[k] # "%"} IN
  \E f \in [lits -> 1..Len(str)] :
    /\ \A k \in lits : q[k] = "_" \/ LowerChar(q[k]) = LowerChar(str[f[k]])
    /\ \A k, l \in lits : k < l => f[k] < f[l]
    /\ \A k \in lits : (k + 1) \in lits => f[k + 1] = f[k] + 1

C7_WantedLike(q, city) ==
  {i \in ItemIds :
     /\ \/ Core(q) = <<>>
        \/ LikeContains(Core(q), items[i].title)
        \/ items[i].description # Null /\ LikeContains(Core(q), items[i].description)
     /\ \/ Core(city) = <<>>
        \/ items[i].city # Null /\ LikeContains(Core(city), items[i].city)}

C7_LikeFilterNewestFirst ==
  /\ [](resp.op = "items" => C7_ListIs(resp.list, C7_WantedLike(resp.q, resp.city)))
  /\ [][resp'.op = "items" /\ resp' # resp =>
          UNCHANGED <<users, items, msgs, uploads, session, pending, outbox, now>>]_vars

C7_Witness ==
  /\ resp.op = "items" /\ resp.q = <<"a">> /\ resp.city = <<>>
  /\ Len(items) = 2
  /\ items[1].title = <<"A", "b">> /\ items[2].title = <<"b">>
  /\ items[1].created_at < items[2].created_at
  /\ resp.list = <<2, 1>>

(***************************************************************************)
(* C8.  For all users A and B, thread(A, B) and thread(B, A) are the same: *)
(* exactly the Messages whose sender and receiver are A and B, in either   *)
(* direction, in ascending creation order.                                 *)
(***************************************************************************)
C8_Between(a, b) ==
  {m \in MsgIds : {msgs[m].sender_id, msgs[m].receiver_id} = {a, b}}

C8_IsThread(thread, a, b) ==
  /\ Len(thread) = Cardinality(C8_Between(a, b))
  /\ {thread[k] : k \in 1..Len(thread)} = C8_Between(a, b)
  /\ \A k, l \in 1..Len(thread) :
       k < l => msgs[thread[k]].created_at <= msgs[thread[l]].created_at

C8_ThreadBothDirections ==
  /\ \A a, b \in UserIds :
       /\ Thread(a, b) = Thread(b, a)
       /\ Thread(a, b) # {}
       /\ \A thread \in Thread(a, b) : C8_IsThread(thread, a, b)
  /\ resp.op = "messages" /\ resp.status = "ok" /\ resp.other # Anonymous
       => C8_IsThread(resp.thread, resp.user, resp.other)

C8_Witness ==
  /\ Len(users) = 3
  /\ resp.op = "messages" /\ resp.status = "ok"
  /\ resp.user = 2 /\ resp.other = 1 /\ resp.thread = <<1, 2>>
  /\ msgs[1].sender_id = 1 /\ msgs[1].receiver_id = 2
  /\ msgs[2].sender_id = 2 /\ msgs[2].receiver_id = 1
  /\ msgs[1].created_at < msgs[2].created_at

(***************************************************************************)
(* C9 as the specification words it: partners_of(U) is the set of users    *)
(* other than U that sent a Message to U or received one from U.           *)
(***************************************************************************)
C9_Exchanged(u, v) ==
  \E m \in MsgIds :
    \/ msgs[m].sender_id = u /\ msgs[m].receiver_id = v
    \/ msgs[m].sender_id = v /\ msgs[m].receiver_id = u

C9_PartnersExcludeSelf ==
  \A u \in UserIds : ConvUsers(u) = {v \in UserIds \ {u} : C9_Exchanged(u, v)}

(***************************************************************************)
(* C9, the part that holds: partners_of(U) is the set of users that sent a *)
(* Message to U or received one from U, U itself included when U has       *)
(* written to itself; B is a partner of A if and only if A is one of B.    *)
(***************************************************************************)
C9_PartnersAreCounterparts ==
  /\ \A u \in UserIds :
       /\ ConvUsers(u) = {v \in UserIds : C9_Exchanged(u, v)}
       /\ \A v \in UserIds : v \in ConvUsers(u) <=> u \in ConvUsers(v)
  /\ resp.op = "messages" /\ resp.status = "ok"
       => resp.partners = {v \in UserIds : C9_Exchanged(resp.user, v)}

C9_Witness ==
  /\ Len(users) = 3
  /\ resp.op = "messages" /\ resp.status = "ok" /\ resp.user = 1
  /\ resp.partners = {1, 2}
  /\ \E m \in MsgIds : msgs[m].sender_id = 1 /\ msgs[m].receiver_id = 1
  /\ \E m \in MsgIds : msgs[m].sender_id = 2 /\ msgs[m].receiver_id = 1

(***************************************************************************)
(* SpecUpload: a seller and a buyer adding items with every kind of price  *)
(* and upload, next to the other requests that write to the store.         *)
(***************************************************************************)
PriceInputs ==
  {Null, <<>>, <<"1", "2">>, <<" ", "-", "1", ".", "5", "0">>, <<"a", "b", "c">>, <<" ">>}

UploadNames ==
  {Null, <<>>,
   <<"p", ".", "J", "P", "G">>, <<"p", ".", "E", "X", "E">>, <<"p", "n", "g">>,
   <<"a", "/", "b", " ", "c", ".", "g", "i", "f">>,
   <<"x", ".", "p", "n", "g", ".", "e", "x", "e">>, <<".", "j", "p", "e", "g">>}

UploadForms ==
  {[PlainItem EXCEPT !.price = pr] : pr \in PriceInputs}
    \cup {[PlainItem EXCEPT !.image = im] : im \in UploadNames}
    \cup {[PlainItem EXCEPT !.price = pr, !.image = <<"p", ".", "J", "P", "G">>] :
            pr \in {<<"a", "b", "c">>, <<>>}}
    \cup {[PlainItem EXCEPT !.price = <<>>, !.image = <<"p", ".", "E", "X", "E">>],
          [PlainItem EXCEPT !.title = Null, !.image = <<"p", ".", "J", "P", "G">>]}

NextUpload ==
  \/ \E k \in {Len(users) + 1} : \E in \in {<<1, <<"A">>, "seller">>, <<2, <<"b">>, None>>} :
       in[1] = k /\ RegisterBegin(1, in[2], "p", in[3], NoProfile)
  \/ RegisterCommit(1, "s1")
  \/ \E e \in {<<"a">>, <<"b">>} : login(1, e, "p")
  \/ logout(1)
  \/ now < MaxSecs /\ Tick(1)
  \/ Len(items) < MaxUploads /\ \E f \in UploadForms : add_item(1, f)

SpecUpload == Init /\ [][NextUpload]_vars

C11_Seller == session[1] # Anonymous /\ users[session[1]].role = "seller"

(***************************************************************************)
(* C11.  add_item by a seller never fails because of the submitted price:  *)
(* with a price that is absent, empty or not a number the Item is created  *)
(* with price 0, and with a number it is created with that number.         *)
(***************************************************************************)
C11_PriceNeverFails ==
  [][resp'.op = "add_item" =>
       \A f \in UploadForms :
         C11_Seller /\ f.title # Null /\ add_item(1, f) =>
           /\ resp'.status = "ItemAdded"
           /\ Len(items') = Len(items) + 1
           /\ items'[Len(items')].price =
                IF f.price \in {Null, <<>>} \/ ~ParseFloat(f.price).ok
                THEN [num |-> 0, den |-> 1]
                ELSE ParseFloat(f.price).value]_vars

(***************************************************************************)
(* C11, the part that holds: an absent or empty price is stored as 0 and a *)
(* number as that number; a price that is not a number ends the request    *)
(* with ValueError and no Item.                                            *)
(***************************************************************************)
C11_PriceStoredWhenParsed ==
  [][resp'.op = "add_item" =>
       \A f \in UploadForms :
         C11_Seller /\ f.title # Null /\ add_item(1, f) =>
           IF f.price \in {Null, <<>>} \/ ParseFloat(f.price).ok
           THEN /\ resp'.status = "ItemAdded"
                /\ Len(items') = Len(items) + 1
                /\ items'[Len(items')].price =
                     IF f.price \in {Null, <<>>} THEN [num |-> 0, den |-> 1]
                     ELSE ParseFloat(f.price).value
           ELSE resp'.status = "ValueError" /\ items' = items]_vars

(***************************************************************************)
(* The part of a name after its final '.', lower-cased, is one of png,     *)
(* jpg, jpeg, gif.  No file, no name and a name without '.' do not qualify.*)
(***************************************************************************)
C12_AllowedExt(name) ==
  /\ name # Null
  /\ \E i \in 1..Len(name) :
       /\ name[i] = "."
       /\ \A j \in (i + 1)..Len(name) : name[j] # "."
       /\ \E ext \in {<<"p", "n", "g">>, <<"j", "p", "g">>, <<"j", "p", "e", "g">>,
                      <<"g", "i", "f">>} :
            /\ Len(ext) = Len(name) - i
            /\ \A k \in 1..Len(ext) : name[i + k] \in {ext[k], UpperLetters[
                 CHOOSE n \in 1..Len(LowerLetters) : LowerLetters[n] = ext[k]]}

C12_Effect(f) ==
  /\ resp'.status = "ItemAdded"
  /\ Len(items') = Len(items) + 1
  /\ \A i \in ItemIds : items'[i] = items[i]
  /\ IF C12_AllowedExt(f.image)
     THEN \E stored \in uploads' :
            /\ uploads' = uploads \cup {stored}
            /\ items'[Len(items')].image_filename = <<stored>>
            /\ stored = NatDigits(session[1]) \o <<"_">> \o Timestamp(now) \o <<"_">>
                          \o secure_filename(f.image)
            /\ stored # f.image
     ELSE /\ uploads' = uploads
          /\ items'[Len(items')].image_filename = <<>>

(***************************************************************************)
(* C12.  In add_item by a seller an uploaded file is stored and referenced *)
(* by the new Item if and only if its extension is allowed; with any other *)
(* upload, or none, the Item is still created, with no image reference,    *)
(* and nothing is stored.  The stored name is made of the seller's id, the *)
(* timestamp and the sanitized name and differs from the original name.    *)
(***************************************************************************)
C12_StoredIffAllowedExt ==
  [][resp'.op = "add_item" =>
       \A f \in UploadForms :
         C11_Seller /\ f.title # Null /\ add_item(1, f) => C12_Effect(f)]_vars

(***************************************************************************)
(* C12, the part that holds: the same, for requests whose price is absent, *)
(* empty or a number.                                                      *)
(***************************************************************************)
C12_StoredIffAllowedExtGoodPrice ==
  [][resp'.op = "add_item" =>
       \A f \in UploadForms :
         C11_Seller /\ f.title # Null /\ CoercePrice(f.price).ok /\ add_item(1, f)
           => C12_Effect(f)]_vars

(***************************************************************************)
(* SpecAtomic: every request that writes to the store, succeeding and      *)
(* failing: register, verify_email, profile, add_item and both sends.      *)
(***************************************************************************)
AtomicForms ==
  {PlainItem,
   [PlainItem EXCEPT !.image = <<"p", ".", "J", "P", "G">>],
   [PlainItem EXCEPT !.image = <<"p", ".", "E", "X", "E">>],
   [PlainItem EXCEPT !.price = <<"a", "b", "c">>, !.image = <<"p", ".", "J", "P", "G">>],
   [PlainItem EXCEPT !.title = Null, !.image = <<"p", ".", "J", "P", "G">>]}

NextAtomic ==
  \/ \E k \in {Len(users) + 1} :
       \E in \in {<<1, <<"A">>, "seller">>, <<2, <<"b">>, None>>, <<3, <<"a", " ">>, None>>} :
         in[1] = k /\ RegisterBegin(1, in[2], "p", in[3], NoProfile)
  \/ RegisterCommit(1, "s1")
  \/ \E e \in {<<"a">>, <<"b">>} : login(1, e, "p")
  \/ logout(1)
  \/ now < MaxSecs /\ Tick(1)
  \/ Len(items) < MaxItems /\ \E f \in AtomicForms : add_item(1, f)
  \/ profile(1, SomeProfile)
  \/ \E t \in outbox \cup ForgedTokens : verify_email(1, t)
  \/ \E to \in ReceiverInputs, txt \in {"hi", ""} :
       Len(msgs) < MaxMsgs /\ contact_seller(1, to, txt)
  \/ \E to \in ReceiverInputs, txt \in {"hi", ""} :
       Len(msgs) < MaxMsgs /\ messages(1, "POST", <<to>>, txt)

SpecAtomic == Init /\ [][NextAtomic]_vars

C13_Done == {"Registered", "Verified", "Updated", "ItemAdded", "MessageSent"}

(***************************************************************************)
(* C13.  Every request applies its effects as one unit: a request that     *)
(* does not succeed leaves users, items, messages and stored upload files  *)
(* as they were, so a failed add_item leaves neither an Item nor a stored  *)
(* file; a request that succeeds has all of its effects, so an added Item  *)
(* comes with its upload and a registration with its User.                 *)
(***************************************************************************)
C13_AllOrNothing ==
  [][/\ resp'.status \notin C13_Done => UNCHANGED <<users, items, msgs, uploads>>
     /\ resp'.status = "ItemAdded" /\ items' # items =>
          /\ Len(items') = Len(items) + 1
          /\ \A f \in uploads' \ uploads : items'[Len(items')].image_filename = <<f>>
     /\ resp'.status = "Registered" /\ users' # users =>
          /\ Len(users') = Len(users) + 1
          /\ users'[Len(users')].email \in Emails
          /\ check_password_hash(users'[Len(users')].password_hash, "p")
          /\ users'[Len(users')].verified = FALSE]_vars

(***************************************************************************)
(* C13, the part that holds: the same for every request but a failing      *)
(* add_item.                                                               *)
(***************************************************************************)
C13_AllOrNothingButAddItem ==
  [][/\ resp'.status \notin C13_Done /\ resp'.op # "add_item"
          => UNCHANGED <<users, items, msgs, uploads>>
     /\ resp'.status \notin C13_Done /\ resp'.op = "add_item" => UNCHANGED <<users, items, msgs>>
     /\ resp'.status = "ItemAdded" /\ items' # items =>
          /\ Len(items') = Len(items) + 1
          /\ \A f \in uploads' \ uploads : items'[Len(items')].image_filename = <<f>>
     /\ resp'.status = "Registered" /\ users' # users =>
          /\ Len(users') = Len(users) + 1
          /\ users'[Len(users')].email \in Emails
          /\ check_password_hash(users'[Len(users')].password_hash, "p")
          /\ users'[Len(users')].verified = FALSE]_vars

====
